---- MODULE Spec2Model ----
(***************************************************************************)
(* jw (jenkins-monitor): the daemon's lifecycle controller, its per-job    *)
(* polling workers, the event router and the durable job store.            *)
(*                                                                         *)
(* One action per handler of cmd/daemon.go (startDaemon's select cases,    *)
(* handleJobEvent, reloadConfigAndJobs), per step of monitor.MonitorJob,   *)
(* and per step of the CLI commands that edit the store from outside.      *)
(***************************************************************************)
EXTENDS Integers, Sequences, FiniteSets, Bags, TLC

\* ------------------------------------------------------------ bounds
\* Job identifiers (URLs) that exist in the explored runs.
JobOrder == <<"j1", "j2">>
Jobs == {JobOrder[i] : i \in 1..Len(JobOrder)}
\* Most workers (stop channels) ever made in a run.
MaxWorkers == 3
\* Most inputs from outside the daemon in a run: probe answers, CLI
\* commands (jw add / jw remove), signals sent by hand, and failures of the
\* disk or of the notifier, all together; for a client of pkg/config, the
\* calls it makes.
MaxInputs == 3
\* Largest poll interval, and largest negative one, in seconds, that a
\* caller of MonitorJob passes, besides one just above the default.
MaxPoll == 3

\* ------------------------------------------------- program constants
\* events := make(chan monitor.JobEvent, 10)
EventsCap == 10
\* sigChan := make(chan os.Signal, 1)
SigCap == 1
\* const pollingInterval = 30 * time.Second, in seconds
pollingInterval == 30

\* ------------------------------------------------------------ helpers
Put(f, k, v) == [x \in (DOMAIN f) \cup {k} |-> IF x = k THEN v ELSE f[x]]
Delete(f, k) == [x \in (DOMAIN f) \ {k} |-> f[x]]
EmptyMap == [x \in {} |-> 0]
Rank(j) == CHOOSE i \in 1..Len(JobOrder) : JobOrder[i] = j
Range(f) == {f[x] : x \in DOMAIN f}

\* ------------------------------------------------------ pkg/config
\* type Job struct { StartTime; URL; LastCheckFailed } -- URL is the map key.
Job(start, failed) == [StartTime |-> start, LastCheckFailed |-> failed]

\* func (c *Config) HasJob(jobURL string) bool
HasJob(cfg, jobURL) == jobURL \in DOMAIN cfg

\* AddJob without the exists test: the entry is made anew.
AddJobOverwrites(cfg, jobURL, now) == Put(cfg, jobURL, Job(now, FALSE))

\* func (c *Config) AddJob(jobURL string): no-op when the URL exists.
AddJob(cfg, jobURL, now) ==
    IF jobURL \in DOMAIN cfg THEN cfg ELSE Put(cfg, jobURL, Job(now, FALSE))

\* RemoveJob that deletes nothing.
RemoveJobKeeps(cfg, jobURL) == cfg

\* func (c *Config) RemoveJob(jobURL string)
RemoveJob(cfg, jobURL) == Delete(cfg, jobURL)

\* func (c *Config) GetJobs() map[string]Job: a copy of the map.
GetJobs(cfg) == cfg

\* UpdateJobCheckStatus that sets the flag and reports a change whenever
\* the job exists.
UpdateJobCheckStatusAlways(cfg, jobURL, failed) ==
    IF jobURL \in DOMAIN cfg
    THEN [cfg |-> Put(cfg, jobURL, Job(cfg[jobURL].StartTime, failed)),
          changed |-> TRUE]
    ELSE [cfg |-> cfg, changed |-> FALSE]

\* func (c *Config) UpdateJobCheckStatus(jobURL, failed) bool
\* result: [cfg, changed]
UpdateJobCheckStatus(cfg, jobURL, failed) ==
    IF jobURL \in DOMAIN cfg
    THEN IF cfg[jobURL].LastCheckFailed = failed
         THEN [cfg |-> cfg, changed |-> FALSE]
         ELSE [cfg |-> Put(cfg, jobURL, Job(cfg[jobURL].StartTime, failed)),
               changed |-> TRUE]
    ELSE [cfg |-> cfg, changed |-> FALSE]

\* Update that runs the callback and does not write the file.
UpdateNoSave(disk, mutated, ok) == [disk |-> disk, wrote |-> 0, err |-> FALSE]

\* func Update(fn): under the file lock, load from disk, apply fn, write the
\* file. `mutated` is fn applied to the loaded config; the file is written
\* whether or not fn changed anything. ok = FALSE: the load or the write
\* failed, the file is left as it was.
Update(disk, mutated, ok) ==
    IF ok
    THEN [disk |-> mutated, wrote |-> 1, err |-> FALSE]
    ELSE [disk |-> disk, wrote |-> 0, err |-> TRUE]

\* ------------------------------------------------------ pkg/jenkins
\* What the remote end can answer to one GET: a transport failure (DNS
\* not-found, timeout), an HTTP status without a usable body, or 200 with a
\* body that decodes (valid) or does not.
Resp(transport, code, valid, building, result) ==
    [transport |-> transport, code |-> code, valid |-> valid,
     Building |-> building, Result |-> result]
Responses ==
    {Resp(t, 0, FALSE, FALSE, "") : t \in {"dns", "timeout"}}
    \cup {Resp("ok", c, FALSE, FALSE, "") : c \in {404, 401, 403, 400, 429, 500}}
    \cup {Resp("ok", 200, FALSE, FALSE, "")}
    \cup {Resp("ok", 200, TRUE, b, r) :
             b \in BOOLEAN, r \in {"", "SUCCESS", "FAILURE", "UNSTABLE"}}

\* func GetJobStatus(jenkinsURL, token) (*JobStatus, int, error)
\* result: [Building, Result, statusCode, err, dnsNotFound]
GetJobStatus(resp) ==
    IF resp.transport # "ok"
    THEN [Building |-> FALSE, Result |-> "", statusCode |-> 0, err |-> TRUE,
          dnsNotFound |-> (resp.transport = "dns")]
    ELSE IF resp.code # 200
    THEN [Building |-> FALSE, Result |-> "", statusCode |-> resp.code,
          err |-> TRUE, dnsNotFound |-> FALSE]
    ELSE IF ~resp.valid
    THEN [Building |-> FALSE, Result |-> "", statusCode |-> resp.code,
          err |-> TRUE, dnsNotFound |-> FALSE]
    ELSE [Building |-> resp.Building, Result |-> resp.Result,
          statusCode |-> resp.code, err |-> FALSE, dnsNotFound |-> FALSE]

\* ------------------------------------------------------ pkg/monitor
\* type EventKind
EventStatusChecked == "StatusChecked"
EventFinished == "Finished"
EventNotFound == "NotFound"
EventUnauthorized == "Unauthorized"
EventClientError == "ClientError"
EventDNSError == "DNSError"
EventError == "Error"
RoutineKinds == {EventStatusChecked, EventError}
TerminalKinds == {EventFinished, EventNotFound, EventUnauthorized,
                  EventClientError, EventDNSError}

\* type JobEvent struct (JobName and Error are carried for logs only)
JobEvent(jobURL, kind, result, failed) ==
    [JobURL |-> jobURL, Kind |-> kind, Result |-> result, Failed |-> failed]

\* handleJobStatusError without the statusCode != 429 exception.
handleJobStatusErrorAll4xx(r, jobURL) ==
    IF r.statusCode = 404
    THEN [event |-> JobEvent(jobURL, EventNotFound, "", TRUE), shouldStop |-> TRUE]
    ELSE IF r.statusCode = 401 \/ r.statusCode = 403
    THEN [event |-> JobEvent(jobURL, EventUnauthorized, "", TRUE), shouldStop |-> TRUE]
    ELSE IF r.statusCode >= 400 /\ r.statusCode < 500
    THEN [event |-> JobEvent(jobURL, EventClientError, "", TRUE), shouldStop |-> TRUE]
    ELSE IF r.dnsNotFound
    THEN [event |-> JobEvent(jobURL, EventDNSError, "", TRUE), shouldStop |-> TRUE]
    ELSE [event |-> JobEvent(jobURL, EventError, "", TRUE), shouldStop |-> FALSE]

\* func handleJobStatusError(err, statusCode, ...) (shouldStop bool)
\* result: [event, shouldStop]
handleJobStatusError(r, jobURL) ==
    IF r.statusCode = 404
    THEN [event |-> JobEvent(jobURL, EventNotFound, "", TRUE), shouldStop |-> TRUE]
    ELSE IF r.statusCode = 401 \/ r.statusCode = 403
    THEN [event |-> JobEvent(jobURL, EventUnauthorized, "", TRUE), shouldStop |-> TRUE]
    ELSE IF r.statusCode >= 400 /\ r.statusCode < 500 /\ r.statusCode # 429
    THEN [event |-> JobEvent(jobURL, EventClientError, "", TRUE), shouldStop |-> TRUE]
    ELSE IF r.dnsNotFound
    THEN [event |-> JobEvent(jobURL, EventDNSError, "", TRUE), shouldStop |-> TRUE]
    ELSE [event |-> JobEvent(jobURL, EventError, "", TRUE), shouldStop |-> FALSE]

\* checkJobStatus finishing only on the result strings an older MonitorJob
\* knew; any other non-building answer is reported as a routine check.
checkJobStatusKnownResults(jobURL, resp) ==
    LET r == GetJobStatus(resp) IN
    IF r.err
    THEN handleJobStatusError(r, jobURL)
    ELSE IF ~r.Building /\ r.Result \in {"SUCCESS", "FAILURE", "ABORTED"}
    THEN [event |-> JobEvent(jobURL, EventFinished, r.Result, FALSE),
          shouldStop |-> TRUE]
    ELSE [event |-> JobEvent(jobURL, EventStatusChecked, "",
                             r.Result = "FAILURE"),
          shouldStop |-> FALSE]

\* func checkJobStatus(jobURL, ...) (shouldStop bool)
\* result: [event, shouldStop]
checkJobStatus(jobURL, resp) ==
    LET r == GetJobStatus(resp) IN
    IF r.err
    THEN handleJobStatusError(r, jobURL)
    ELSE IF ~r.Building
    THEN [event |-> JobEvent(jobURL, EventFinished, r.Result, FALSE),
          shouldStop |-> TRUE]
    ELSE [event |-> JobEvent(jobURL, EventStatusChecked, "",
                             r.Result = "FAILURE"),
          shouldStop |-> FALSE]

\* ------------------------------------------------------------ state
VARIABLES
    ctl,         \* startDaemon: "init", "running", "returned", "fatal", "panicked"
    sigChan,     \* sigChan: pending OS signals, at most SigCap
    events,      \* events: the buffered JobEvent channel
    activeJobs,  \* activeJobs: job URL -> stop channel (a worker id)
    store,       \* the jobs file on disk: job URL -> Job
    workers,     \* the MonitorJob goroutines ever started: [job, pc]
    closed,      \* stop channels that have been closed
    sent,        \* notifications delivered: a bag of [title, url]
    cli,         \* the one CLI command in progress: [pc, op, job, snap]
    fake,        \* the scripted remote end of the end-to-end scenario
    nIn,         \* inputs from outside so far
    mem,         \* config objects a client of pkg/config holds: pointer -> Jobs
    last         \* what the step into this state did, when it was the
                 \* Controller's (observation only)

vars == <<ctl, sigChan, events, activeJobs, store, workers, closed, sent,
          cli, fake, nIn, mem, last>>

CliIdle == [pc |-> "idle", op |-> "", job |-> "", snap |-> EmptyMap]

\* op: the select case served; prev: the case served before it when nothing
\* but signal deliveries and idle ticks happened in between, else "none".
Obs(op, job, kind, failed, wrote, spawned, stopped, loaded, notified) ==
    [op |-> op, job |-> job, kind |-> kind, failed |-> failed, wrote |-> wrote,
     spawned |-> spawned, stopped |-> stopped, loaded |-> loaded,
     notified |-> notified,
     prev |-> IF last.op # "none" THEN last.op ELSE last.prev]
NoObs ==
    [op |-> "none", job |-> "", kind |-> "", failed |-> FALSE, wrote |-> 0,
     spawned |-> {}, stopped |-> {}, loaded |-> {}, notified |-> 0,
     prev |-> "none"]
\* A signal delivery, or a tick that finds jobs, changes nothing the
\* Controller's cases read or write: the case served before it is carried
\* over.
Carry == [NoObs EXCEPT !.prev = IF last.op # "none" THEN last.op ELSE last.prev]

\* The jobs files a run can start from: any subset of Jobs, as jw add left
\* them (LastCheckFailed unset).
Stores == {[j \in S |-> Job(0, FALSE)] : S \in SUBSET Jobs}

Init ==
    /\ ctl = "init"
    /\ sigChan = <<>>
    /\ events = <<>>
    /\ activeJobs = EmptyMap
    /\ store \in Stores
    /\ workers = <<>>
    /\ closed = {}
    /\ sent = EmptyBag
    /\ cli = CliIdle
    /\ fake = "off"
    /\ nIn = 0
    /\ mem = EmptyMap
    /\ last = NoObs

Live(w) == w \in DOMAIN workers /\ workers[w].pc # "done"
LiveWorkersOf(j) == {w \in DOMAIN workers : workers[w].job = j /\ Live(w)}

\* ------------------------------------------------ cmd/daemon.go: reconcile
\* close(stopChan) for each channel of ids; closing a closed channel panics.
CloseAll(ids) == [closed |-> closed \cup ids, panic |-> ids \cap closed # {}]

\* The first loop stopping nothing.
RemovedJobsNone(currentConfigJobs) == {}

\* The first loop stopping every tracked job (a restart of all workers).
RemovedJobsAll(currentConfigJobs) == DOMAIN activeJobs

\* for jobURL, stopChan := range activeJobs: the tracked jobs that are not in
\* the loaded config.
RemovedJobs(currentConfigJobs) ==
    {j \in DOMAIN activeJobs : j \notin DOMAIN currentConfigJobs}

\* The second loop without the activeJobs test (a blind respawn).
NewJobsAll(currentConfigJobs, kept) == DOMAIN currentConfigJobs

\* for jobURL := range currentConfigJobs: the loaded jobs that are not
\* tracked (kept: activeJobs after the first loop).
NewJobs(currentConfigJobs, kept) ==
    {j \in DOMAIN currentConfigJobs : j \notin DOMAIN kept}

\* A worker that waits for its ticker before the first check.
MonitorJobTickerFirst(jobURL) == [job |-> jobURL, pc |-> "wait"]

\* go monitor.MonitorJob(jobURL, ...): the new goroutine, which performs the
\* first check immediately (the ticker it has created is not waited for).
MonitorJob(jobURL) == [job |-> jobURL, pc |-> "check"]

\* func reloadConfigAndJobs(...): what one call computes from the state.
\* result: [ok, loaded, stopped, spawned, active, workers, closed, panic]
reloadConfigAndJobs(loadOK) ==
    IF ~loadOK
    THEN [ok |-> FALSE, loaded |-> {}, stopped |-> {}, spawned |-> {},
          active |-> activeJobs, workers |-> workers, closed |-> closed,
          panic |-> FALSE]
    ELSE
      LET currentConfigJobs == GetJobs(store)
          gone == RemovedJobs(currentConfigJobs)
          c == CloseAll({activeJobs[j] : j \in gone})
          kept == [j \in (DOMAIN activeJobs) \ gone |-> activeJobs[j]]
          new == NewJobs(currentConfigJobs, kept)
          id(j) == Len(workers) + 1
                   + Cardinality({k \in new : Rank(k) < Rank(j)})
          started == [i \in 1..Cardinality(new) |->
                        LET j == CHOOSE k \in new : id(k) = Len(workers) + i
                        IN MonitorJob(j)]
      IN [ok |-> TRUE,
          loaded |-> DOMAIN currentConfigJobs,
          stopped |-> {activeJobs[j] : j \in gone},
          spawned |-> new,
          active |-> [j \in (DOMAIN kept) \cup new |->
                        IF j \in new THEN id(j) ELSE kept[j]],
          workers |-> workers \o started,
          closed |-> c.closed,
          panic |-> c.panic]

\* The state change of one reloadConfigAndJobs call whose result is r.
ApplyReload(r) ==
    /\ Len(r.workers) <= MaxWorkers
    /\ activeJobs' = r.active
    /\ workers' = r.workers
    /\ closed' = r.closed

\* What a handler call takes from the budget of inputs: one per failure.
Cost(ok) == IF ok THEN 0 ELSE 1

\* startDaemon logging the initial load's error and going on to the loop.
StartupIgnoresLoadError(loadOK1, loadOK2) ==
    /\ ctl = "init"
    /\ nIn + Cost(loadOK1) + Cost(loadOK2) <= MaxInputs
    /\ nIn' = nIn + Cost(loadOK1) + Cost(loadOK2)
    /\ LET r == reloadConfigAndJobs(loadOK2) IN
       /\ ApplyReload(r)
       /\ ctl' = IF r.panic THEN "panicked" ELSE "running"
       /\ last' = Obs(IF ~loadOK1 THEN "fatal"
                      ELSE IF r.ok THEN "startup" ELSE "reloadFailed", "", "",
                      FALSE, 0, r.spawned, r.stopped, r.loaded, 0)
    /\ UNCHANGED <<mem, sigChan, events, store, sent, cli, fake>>

\* startDaemon up to the loop: the initial store.Load (fatal on error), the
\* signal registration, then the first reloadConfigAndJobs.
Startup(loadOK1, loadOK2) ==
    /\ ctl = "init"
    /\ nIn + Cost(loadOK1) + Cost(loadOK2) <= MaxInputs
    /\ nIn' = nIn + Cost(loadOK1) + Cost(loadOK2)
    /\ IF ~loadOK1
       THEN /\ ctl' = "fatal"
            /\ last' = Obs("fatal", "", "", FALSE, 0, {}, {}, {}, 0)
            /\ UNCHANGED <<mem, activeJobs, workers, closed>>
       ELSE LET r == reloadConfigAndJobs(loadOK2) IN
            /\ ApplyReload(r)
            /\ ctl' = IF r.panic THEN "panicked" ELSE "running"
            /\ last' = Obs(IF r.ok THEN "startup" ELSE "reloadFailed", "", "",
                           FALSE, 0, r.spawned, r.stopped, r.loaded, 0)
    /\ UNCHANGED <<mem, sigChan, events, store, sent, cli, fake>>

\* The SIGHUP case with a load error treated like the initial load's.
ServiceReloadFatal(loadOK) ==
    /\ ctl = "running"
    /\ sigChan # <<>>
    /\ Head(sigChan) = "HUP"
    /\ nIn + Cost(loadOK) <= MaxInputs
    /\ nIn' = nIn + Cost(loadOK)
    /\ sigChan' = Tail(sigChan)
    /\ LET r == reloadConfigAndJobs(loadOK) IN
       /\ ApplyReload(r)
       /\ ctl' = IF r.panic THEN "panicked"
                 ELSE IF r.ok THEN "running" ELSE "fatal"
       /\ last' = Obs(IF r.ok THEN "reload" ELSE "reloadFailed", "", "", FALSE,
                      0, r.spawned, r.stopped, r.loaded, 0)
    /\ UNCHANGED <<mem, events, store, sent, cli, fake>>

\* case sig := <-sigChan, SIGHUP: reloadConfigAndJobs.
ServiceReload(loadOK) ==
    /\ ctl = "running"
    /\ sigChan # <<>>
    /\ Head(sigChan) = "HUP"
    /\ nIn + Cost(loadOK) <= MaxInputs
    /\ nIn' = nIn + Cost(loadOK)
    /\ sigChan' = Tail(sigChan)
    /\ LET r == reloadConfigAndJobs(loadOK) IN
       /\ ApplyReload(r)
       /\ ctl' = IF r.panic THEN "panicked" ELSE "running"
       /\ last' = Obs(IF r.ok THEN "reload" ELSE "reloadFailed", "", "", FALSE,
                      0, r.spawned, r.stopped, r.loaded, 0)
    /\ UNCHANGED <<mem, events, store, sent, cli, fake>>

\* The SIGINT/SIGTERM case without the loop that closes the stop channels.
ServiceShutdownNoClose ==
    /\ ctl = "running"
    /\ sigChan # <<>>
    /\ Head(sigChan) \in {"INT", "TERM"}
    /\ sigChan' = Tail(sigChan)
    /\ ctl' = "returned"
    /\ last' = Obs("shutdown", "", "", FALSE, 0, {}, {}, {}, 0)
    /\ UNCHANGED <<mem, events, activeJobs, store, workers, closed, sent, cli,
                   fake, nIn>>

\* case sig := <-sigChan, SIGINT/SIGTERM: close every stop channel of
\* activeJobs (the map is left as it is), sleep, return.
ServiceShutdown ==
    /\ ctl = "running"
    /\ sigChan # <<>>
    /\ Head(sigChan) \in {"INT", "TERM"}
    /\ sigChan' = Tail(sigChan)
    /\ LET c == CloseAll(Range(activeJobs)) IN
       /\ closed' = c.closed
       /\ ctl' = IF c.panic THEN "panicked" ELSE "returned"
       /\ last' = Obs("shutdown", "", "", FALSE, 0, {}, Range(activeJobs), {}, 0)
    /\ UNCHANGED <<mem, events, activeJobs, store, workers, sent, cli, fake, nIn>>

\* case <-deps.Stop of runDaemonLoop: the embedding closes Stop and the loop
\* services it: close every stop channel of activeJobs, return. The stop
\* request is an input from outside.
ServiceStop ==
    /\ ctl = "running"
    /\ nIn < MaxInputs
    /\ nIn' = nIn + 1
    /\ LET c == CloseAll(Range(activeJobs)) IN
       /\ closed' = c.closed
       /\ ctl' = IF c.panic THEN "panicked" ELSE "returned"
       /\ last' = Obs("stop", "", "", FALSE, 0, {}, Range(activeJobs), {}, 0)
    /\ UNCHANGED <<mem, sigChan, events, activeJobs, store, workers, sent, cli,
                   fake>>

\* The ticker case without the len(activeJobs) == 0 test.
TickKeepsRunning ==
    /\ ctl = "running"
    /\ ctl' = "running"
    /\ last' = IF DOMAIN activeJobs = {}
               THEN Obs("tick", "", "", FALSE, 0, {}, {}, {}, 0)
               ELSE Carry
    /\ UNCHANGED <<mem, sigChan, events, activeJobs, store, workers, closed, sent,
                   cli, fake, nIn>>

\* case <-ticker.C: pidfile.CheckAndRestore (logged only), then return when
\* activeJobs is empty. A tick that finds jobs changes nothing, like a
\* signal delivery.
Tick ==
    /\ ctl = "running"
    /\ ctl' = IF DOMAIN activeJobs = {} THEN "returned" ELSE "running"
    /\ last' = IF DOMAIN activeJobs = {}
               THEN Obs("tick", "", "", FALSE, 0, {}, {}, {}, 0)
               ELSE Carry
    /\ UNCHANGED <<mem, sigChan, events, activeJobs, store, workers, closed, sent,
                   cli, fake, nIn>>

\* ------------------------------------------- cmd/daemon.go: event router
\* updateJobCheckStatus whose callback stores the flag without the exists
\* test, so that a missing job is created.
updateJobCheckStatusUpserts(jobURL, failed, updOK) ==
    Update(store, Put(store, jobURL, Job(0, failed)), updOK)

\* updateJobCheckStatus whose callback never sets the flag.
updateJobCheckStatusKeeps(jobURL, failed, updOK) == Update(store, store, updOK)

\* func updateJobCheckStatus(jobURL, failed, logger, store): one store.Update
\* whose callback sets LastCheckFailed when the job exists and the value
\* differs. result: [disk, wrote, err]
updateJobCheckStatus(jobURL, failed, updOK) ==
    LET cfg == store
        mutated == IF jobURL \in DOMAIN cfg
                   THEN IF cfg[jobURL].LastCheckFailed # failed
                        THEN Put(cfg, jobURL, Job(cfg[jobURL].StartTime, failed))
                        ELSE cfg
                   ELSE cfg
    IN Update(store, mutated, updOK)

\* removeJob closing the stop channel without deleting the activeJobs entry.
removeJobKeepsEntry(jobURL, updOK) ==
    LET u == Update(store, Delete(store, jobURL), updOK)
        exists == jobURL \in DOMAIN activeJobs
        ids == IF exists THEN {activeJobs[jobURL]} ELSE {}
        c == CloseAll(ids)
    IN [disk |-> u.disk, wrote |-> u.wrote, active |-> activeJobs,
        closed |-> c.closed, stopped |-> ids, panic |-> c.panic]

\* func removeJob(jobURL, logger, store, activeJobs): delete the job in one
\* store.Update (an error is logged only), then delete the activeJobs entry
\* and close its stop channel when there is one.
\* result: [disk, wrote, active, closed, stopped, panic]
removeJob(jobURL, updOK) ==
    LET u == Update(store, Delete(store, jobURL), updOK)
        exists == jobURL \in DOMAIN activeJobs
        ids == IF exists THEN {activeJobs[jobURL]} ELSE {}
        c == CloseAll(ids)
    IN [disk |-> u.disk, wrote |-> u.wrote,
        active |-> IF exists THEN Delete(activeJobs, jobURL) ELSE activeJobs,
        closed |-> c.closed, stopped |-> ids, panic |-> c.panic]

\* Send without the delivery.
SendDrops(title, url, notifyOK) == EmptyBag

\* notify.Send(title, message, url): delivered unless it returns an error.
Send(title, url, notifyOK) ==
    IF notifyOK THEN SetToBag({[title |-> title, url |-> url]}) ELSE EmptyBag

\* handleJobEvent giving up on a Finished event when notify.Send fails.
handleJobEventNotifyFirst(event, updOK, notifyOK) ==
    IF event.Kind \in {EventStatusChecked, EventError}
    THEN LET u == updateJobCheckStatus(event.JobURL, event.Failed, updOK)
         IN [disk |-> u.disk, wrote |-> u.wrote, active |-> activeJobs,
             closed |-> closed, stopped |-> {}, panic |-> FALSE, notes |-> EmptyBag]
    ELSE IF event.Kind = EventFinished /\ notifyOK
    THEN LET notificationTitle == IF event.Result = "FAILURE"
                                  THEN "Jenkins Job Failed"
                                  ELSE "Jenkins Job Completed"
             r == removeJob(event.JobURL, updOK)
         IN [disk |-> r.disk, wrote |-> r.wrote, active |-> r.active,
             closed |-> r.closed, stopped |-> r.stopped, panic |-> r.panic,
             notes |-> Send(notificationTitle, event.JobURL, notifyOK)]
    ELSE IF event.Kind = EventNotFound
    THEN LET r == removeJob(event.JobURL, updOK)
         IN [disk |-> r.disk, wrote |-> r.wrote, active |-> r.active,
             closed |-> r.closed, stopped |-> r.stopped, panic |-> r.panic,
             notes |-> Send("Jenkins Job Not Found", event.JobURL, notifyOK)]
    ELSE [disk |-> store, wrote |-> 0, active |-> activeJobs,
          closed |-> closed, stopped |-> {}, panic |-> FALSE, notes |-> EmptyBag]

\* func handleJobEvent(event, logger, store, activeJobs)
\* result: [disk, wrote, active, closed, stopped, panic, notes]
handleJobEvent(event, updOK, notifyOK) ==
    IF event.Kind \in {EventStatusChecked, EventError}
    THEN LET u == updateJobCheckStatus(event.JobURL, event.Failed, updOK)
         IN [disk |-> u.disk, wrote |-> u.wrote, active |-> activeJobs,
             closed |-> closed, stopped |-> {}, panic |-> FALSE, notes |-> EmptyBag]
    ELSE IF event.Kind = EventFinished
    THEN LET notificationTitle == IF event.Result = "FAILURE"
                                  THEN "Jenkins Job Failed"
                                  ELSE "Jenkins Job Completed"
             r == removeJob(event.JobURL, updOK)
         IN [disk |-> r.disk, wrote |-> r.wrote, active |-> r.active,
             closed |-> r.closed, stopped |-> r.stopped, panic |-> r.panic,
             notes |-> Send(notificationTitle, event.JobURL, notifyOK)]
    ELSE IF event.Kind = EventNotFound
    THEN LET r == removeJob(event.JobURL, updOK)
         IN [disk |-> r.disk, wrote |-> r.wrote, active |-> r.active,
             closed |-> r.closed, stopped |-> r.stopped, panic |-> r.panic,
             notes |-> Send("Jenkins Job Not Found", event.JobURL, notifyOK)]
    ELSE [disk |-> store, wrote |-> 0, active |-> activeJobs,
          closed |-> closed, stopped |-> {}, panic |-> FALSE, notes |-> EmptyBag]

\* The events case never taken while the channel is full.
ServiceEventUnlessFull(updOK, notifyOK) ==
    /\ ctl = "running"
    /\ events # <<>>
    /\ Len(events) < EventsCap
    /\ nIn + Cost(updOK) + Cost(notifyOK) <= MaxInputs
    /\ nIn' = nIn + Cost(updOK) + Cost(notifyOK)
    /\ LET event == Head(events)
           h == handleJobEvent(event, updOK, notifyOK)
       IN /\ events' = Tail(events)
          /\ store' = h.disk
          /\ activeJobs' = h.active
          /\ closed' = h.closed
          /\ sent' = sent (+) h.notes
          /\ ctl' = IF h.panic THEN "panicked" ELSE "running"
          /\ last' = Obs("event", event.JobURL, event.Kind, event.Failed,
                         h.wrote, {}, h.stopped, {}, BagCardinality(h.notes))
    /\ UNCHANGED <<mem, sigChan, workers, cli, fake>>

\* The events case run while a pending signal is taken as well, as if the
\* handler were started with `go` and the select went on.
ServiceEventOverlapping(updOK, notifyOK) ==
    /\ ctl = "running"
    /\ events # <<>>
    /\ nIn + Cost(updOK) + Cost(notifyOK) <= MaxInputs
    /\ nIn' = nIn + Cost(updOK) + Cost(notifyOK)
    /\ sigChan' = IF sigChan # <<>> THEN Tail(sigChan) ELSE sigChan
    /\ LET event == Head(events)
           h == handleJobEvent(event, updOK, notifyOK)
       IN /\ events' = Tail(events)
          /\ store' = h.disk
          /\ activeJobs' = h.active
          /\ closed' = h.closed
          /\ sent' = sent (+) h.notes
          /\ ctl' = IF h.panic THEN "panicked" ELSE "running"
          /\ last' = Obs("event", event.JobURL, event.Kind, event.Failed,
                         h.wrote, {}, h.stopped, {}, BagCardinality(h.notes))
    /\ UNCHANGED <<mem, workers, cli, fake>>

\* case event := <-events: handleJobEvent, synchronously.
ServiceEvent(updOK, notifyOK) ==
    /\ ctl = "running"
    /\ events # <<>>
    /\ nIn + Cost(updOK) + Cost(notifyOK) <= MaxInputs
    /\ nIn' = nIn + Cost(updOK) + Cost(notifyOK)
    /\ LET event == Head(events)
           h == handleJobEvent(event, updOK, notifyOK)
       IN /\ events' = Tail(events)
          /\ store' = h.disk
          /\ activeJobs' = h.active
          /\ closed' = h.closed
          /\ sent' = sent (+) h.notes
          /\ ctl' = IF h.panic THEN "panicked" ELSE "running"
          /\ last' = Obs("event", event.JobURL, event.Kind, event.Failed,
                         h.wrote, {}, h.stopped, {}, BagCardinality(h.notes))
    /\ UNCHANGED <<mem, sigChan, workers, cli, fake>>

\* ------------------------------------------- pkg/monitor: MonitorJob
\* startDaemon's return, a fatal exit and a panic all end the process and
\* its goroutines. A process that called runDaemonLoop in a goroutine of
\* its own (fake = "embedded") lives on when the loop returns.
ProcessAlive ==
    \/ ctl \in {"init", "running"}
    \/ ctl = "returned" /\ fake = "embedded"

\* A check that pushes nothing while the build is still running.
CheckSilentWhileBuilding(w, resp) ==
    /\ ProcessAlive
    /\ w \in DOMAIN workers
    /\ workers[w].pc = "check"
    /\ Len(events) < EventsCap
    /\ LET r == checkJobStatus(workers[w].job, resp) IN
       /\ events' = IF r.event.Kind = EventStatusChecked THEN events
                     ELSE Append(events, r.event)
       /\ workers' = [workers EXCEPT ![w].pc =
                        IF r.shouldStop THEN "done" ELSE "wait"]
    /\ last' = NoObs
    /\ UNCHANGED <<mem, ctl, sigChan, activeJobs, store, closed, sent, cli>>

\* One checkJobStatus call of worker w: the probe answers resp, the event
\* is pushed (the push waits while the channel is full), and the worker
\* returns when shouldStop, else goes back to the select.
Check(w, resp) ==
    /\ ProcessAlive
    /\ w \in DOMAIN workers
    /\ workers[w].pc = "check"
    /\ Len(events) < EventsCap
    /\ LET r == checkJobStatus(workers[w].job, resp) IN
       /\ events' = Append(events, r.event)
       /\ workers' = [workers EXCEPT ![w].pc =
                        IF r.shouldStop THEN "done" ELSE "wait"]
    /\ last' = NoObs
    /\ UNCHANGED <<mem, ctl, sigChan, activeJobs, store, closed, sent, cli>>

\* MonitorJob's first check and every later one, against any remote answer.
WorkerCheck(w, resp) ==
    /\ fake = "off"
    /\ nIn < MaxInputs
    /\ nIn' = nIn + 1
    /\ Check(w, resp)
    /\ UNCHANGED <<mem, fake>>

\* select, case <-ticker.C: the poll interval elapsed.
WorkerTick(w) ==
    /\ ProcessAlive
    /\ w \in DOMAIN workers
    /\ workers[w].pc = "wait"
    /\ workers' = [workers EXCEPT ![w].pc = "check"]
    /\ last' = NoObs
    /\ UNCHANGED <<mem, ctl, sigChan, events, activeJobs, store, closed, sent,
                   cli, fake, nIn>>

\* A worker whose select goes on polling when it finds stop closed.
WorkerStopKeepsPolling(w) ==
    /\ ProcessAlive
    /\ w \in DOMAIN workers
    /\ workers[w].pc = "wait"
    /\ w \in closed
    /\ workers' = [workers EXCEPT ![w].pc = "check"]
    /\ last' = NoObs
    /\ UNCHANGED <<mem, ctl, sigChan, events, activeJobs, store, closed, sent,
                   cli, fake, nIn>>

\* select, case <-stop: the stop channel is closed, the worker returns.
WorkerStop(w) ==
    /\ ProcessAlive
    /\ w \in DOMAIN workers
    /\ workers[w].pc = "wait"
    /\ w \in closed
    /\ workers' = [workers EXCEPT ![w].pc = "done"]
    /\ last' = NoObs
    /\ UNCHANGED <<mem, ctl, sigChan, events, activeJobs, store, closed, sent,
                   cli, fake, nIn>>

\* MonitorJob keeping the interval it was given.
pollIntervalUnguarded(pollInterval) == pollInterval

\* if pollInterval <= 0 { pollInterval = pollingInterval }: the interval
\* MonitorJob hands to time.NewTicker.
pollIntervalGuard(pollInterval) ==
    IF pollInterval <= 0 THEN pollingInterval ELSE pollInterval

\* ------------------------------------------- the process's environment
\* signal.Notify's delivery: never blocks, the signal is dropped when the
\* channel is full.
Deliver(sig) == IF Len(sigChan) < SigCap THEN Append(sigChan, sig) ELSE sigChan

\* A signal sent to the daemon process once signal.Notify has registered
\* the channel.
Signal(sig) ==
    /\ ctl = "running"
    /\ sigChan' = Deliver(sig)
    /\ last' = Carry
    /\ UNCHANGED <<mem, ctl, events, activeJobs, store, workers, closed, sent,
                   cli>>

\* kill -HUP / -INT / -TERM by hand.
UserSignal(sig) ==
    /\ nIn < MaxInputs
    /\ nIn' = nIn + 1
    /\ Signal(sig)
    /\ UNCHANGED <<mem, fake>>

\* jw add / jw remove, first half: store.Load, the HasJob test (the command
\* returns when there is nothing to do), AddJob or RemoveJob on the loaded
\* copy. The daemon never reads StartTime, and the clock stands still here.
CliLoad(op, jobURL) ==
    /\ ProcessAlive
    /\ cli.pc = "idle"
    /\ nIn < MaxInputs
    /\ nIn' = nIn + 1
    /\ LET cfg == store IN
       cli' = IF op = "add"
              THEN IF HasJob(cfg, jobURL) THEN CliIdle
                   ELSE [pc |-> "loaded", op |-> op, job |-> jobURL,
                         snap |-> AddJob(cfg, jobURL, 0)]
              ELSE IF ~HasJob(cfg, jobURL) THEN CliIdle
                   ELSE [pc |-> "loaded", op |-> op, job |-> jobURL,
                         snap |-> RemoveJob(cfg, jobURL)]
    /\ last' = NoObs
    /\ UNCHANGED <<mem, ctl, sigChan, events, activeJobs, store, workers, closed,
                   sent, fake>>

\* jw add / jw remove, second half: store.Save of the edited copy, then
\* signalDaemonReload: SIGHUP to the running daemon (a daemon still starting
\* loads the saved file itself).
CliSave ==
    /\ ProcessAlive
    /\ cli.pc = "loaded"
    /\ store' = cli.snap
    /\ sigChan' = IF ctl = "running" THEN Deliver("HUP") ELSE sigChan
    /\ cli' = CliIdle
    /\ last' = NoObs
    /\ UNCHANGED <<mem, ctl, events, activeJobs, workers, closed, sent, fake, nIn>>

\* ------------------------------------------------------ specifications
\* The daemon with a store and a notifier that work, any remote answers,
\* CLI edits and signals.
Next ==
    \/ Startup(TRUE, TRUE)
    \/ ServiceReload(TRUE)
    \/ ServiceShutdown
    \/ ServiceStop
    \/ ServiceEvent(TRUE, TRUE)
    \/ Tick
    \/ \E w \in 1..MaxWorkers, resp \in Responses : WorkerCheck(w, resp)
    \/ \E w \in 1..MaxWorkers : WorkerTick(w)
    \/ \E w \in 1..MaxWorkers : WorkerStop(w)
    \/ \E sig \in {"HUP", "INT", "TERM"} : UserSignal(sig)
    \/ \E op \in {"add", "remove"}, j \in Jobs : CliLoad(op, j)
    \/ CliSave

Spec == Init /\ [][Next]_vars

\* The same daemon when the disk and the notifier can fail: the initial
\* load or the first reconcile's load, a reload's load, a store.Update of
\* the router, a notify.Send.
NextF ==
    \/ Next
    \/ Startup(FALSE, TRUE)
    \/ Startup(TRUE, FALSE)
    \/ ServiceReload(FALSE)
    \/ ServiceEvent(FALSE, TRUE)
    \/ ServiceEvent(TRUE, FALSE)
    \/ ServiceEvent(FALSE, FALSE)

SpecF == Init /\ [][NextF]_vars

\* ---------------------------------------- the end-to-end scenario
\* TestAddMonitorRemoveIntegration: one seeded job, a fake Jenkins that
\* answers "building" until the test, having seen a request, flips it to
\* finished with SUCCESS. No signal is sent and Stop is never closed.
E2EJob == JobOrder[1]

\* The fake server's handler.
FakeJenkins ==
    IF fake = "finished"
    THEN Resp("ok", 200, TRUE, FALSE, "SUCCESS")
    ELSE Resp("ok", 200, TRUE, TRUE, "")

InitE2E ==
    /\ ctl = "init"
    /\ sigChan = <<>>
    /\ events = <<>>
    /\ activeJobs = EmptyMap
    /\ store = [j \in {E2EJob} |-> Job(0, FALSE)]
    /\ workers = <<>>
    /\ closed = {}
    /\ sent = EmptyBag
    /\ cli = CliIdle
    /\ fake = "building"
    /\ nIn = 0
    /\ mem = EmptyMap
    /\ last = NoObs

\* A check of worker w answered by the fake server (requestCount.Add(1)).
E2ECheck(w) ==
    /\ fake # "off"
    /\ Check(w, FakeJenkins)
    /\ fake' = IF fake = "building" THEN "polled" ELSE fake
    /\ UNCHANGED <<mem, nIn>>

\* require.Eventually(requestCount >= 1), then finished.Store(true).
FakeFlip ==
    /\ fake = "polled"
    /\ fake' = "finished"
    /\ last' = NoObs
    /\ UNCHANGED <<mem, ctl, sigChan, events, activeJobs, store, workers, closed,
                   sent, cli, nIn>>

\* The worker of the one job ends by returning after its Finished event, so
\* its stop channel is closed only after it is done: no WorkerStop here.
NextE2E ==
    \/ Startup(TRUE, TRUE)
    \/ ServiceEvent(TRUE, TRUE)
    \/ Tick
    \/ \E w \in 1..MaxWorkers : E2ECheck(w)
    \/ \E w \in 1..MaxWorkers : WorkerTick(w)
    \/ FakeFlip

\* Every goroutine that can run does run, Go's select serves a case that
\* stays ready, both tickers keep firing, and the test goes on to the flip.
SpecE2E ==
    /\ InitE2E
    /\ [][NextE2E]_vars
    /\ WF_vars(Startup(TRUE, TRUE))
    /\ WF_vars(ServiceEvent(TRUE, TRUE))
    /\ WF_vars(Tick)
    /\ WF_vars(\E w \in 1..MaxWorkers : E2ECheck(w))
    /\ WF_vars(\E w \in 1..MaxWorkers : WorkerTick(w))
    /\ WF_vars(FakeFlip)

\* ---------------------------------------- a burst of events
\* Every job of Jobs is in the store; the first job's probe answers
\* "building" as often as its worker asks, or 404; every other job's probe
\* answers 404. The events channel can fill up while the Controller serves
\* other cases. No CLI command, no signal.
BurstResponses ==
    {Resp("ok", 200, TRUE, TRUE, ""), Resp("ok", 404, FALSE, FALSE, "")}

InitBurst ==
    /\ ctl = "init"
    /\ sigChan = <<>>
    /\ events = <<>>
    /\ activeJobs = EmptyMap
    /\ store = [j \in Jobs |-> Job(0, FALSE)]
    /\ workers = <<>>
    /\ closed = {}
    /\ sent = EmptyBag
    /\ cli = CliIdle
    /\ fake = "burst"
    /\ nIn = 0
    /\ mem = EmptyMap
    /\ last = NoObs

BurstCheck(w, resp) ==
    /\ fake = "burst"
    /\ w \in DOMAIN workers
    /\ resp.code = 404 \/ workers[w].job = JobOrder[1]
    /\ Check(w, resp)
    /\ UNCHANGED <<mem, fake, nIn>>

\* A worker's stop channel is closed only by the removal that follows its
\* own terminal event, when it has returned: no WorkerStop here.
NextBurst ==
    \/ Startup(TRUE, TRUE)
    \/ ServiceEvent(TRUE, TRUE)
    \/ Tick
    \/ \E w \in 1..Len(JobOrder), resp \in BurstResponses : BurstCheck(w, resp)
    \/ \E w \in 1..Len(JobOrder) : WorkerTick(w)

\* The Controller's select serves a case that stays ready; a sender blocked
\* on the full channel is queued first-in first-out by the runtime, so a
\* push that can complete again and again does complete.
SpecBurst ==
    /\ InitBurst
    /\ [][NextBurst]_vars
    /\ WF_vars(Startup(TRUE, TRUE))
    /\ WF_vars(ServiceEvent(TRUE, TRUE))
    /\ WF_vars(Tick)
    /\ \A w \in 1..Len(JobOrder) :
          /\ SF_vars(\E resp \in BurstResponses : BurstCheck(w, resp))
          /\ WF_vars(WorkerTick(w))

\* ---------------------------------------- signals and reloads
\* One job that an operator adds and removes with jw while signalling the
\* daemon by hand. `fake` tells whether a shutdown signal has been sent:
\* "quiet" until then, "asked" afterwards. The probe answers building,
\* finished or 401.
SigJob == JobOrder[1]

SigResponses ==
    {Resp("ok", 200, TRUE, TRUE, ""), Resp("ok", 200, TRUE, FALSE, "SUCCESS"),
     Resp("ok", 401, FALSE, FALSE, "")}

InitSig ==
    /\ ctl = "init"
    /\ sigChan = <<>>
    /\ events = <<>>
    /\ activeJobs = EmptyMap
    /\ store \in {[j \in S |-> Job(0, FALSE)] : S \in SUBSET {SigJob}}
    /\ workers = <<>>
    /\ closed = {}
    /\ sent = EmptyBag
    /\ cli = CliIdle
    /\ fake = "quiet"
    /\ nIn = 0
    /\ mem = EmptyMap
    /\ last = NoObs

\* The operator's kill.
SigSend(sig) ==
    /\ fake \in {"quiet", "asked"}
    /\ nIn < MaxInputs
    /\ nIn' = nIn + 1
    /\ Signal(sig)
    /\ fake' = IF sig \in {"INT", "TERM"} THEN "asked" ELSE fake
    /\ UNCHANGED mem

\* A check of worker w against one of the scenario's answers.
SigCheck(w, resp) ==
    /\ fake \in {"quiet", "asked"}
    /\ nIn < MaxInputs
    /\ nIn' = nIn + 1
    /\ Check(w, resp)
    /\ UNCHANGED <<mem, fake>>

NextSig ==
    \/ Startup(TRUE, TRUE)
    \/ ServiceReload(TRUE)
    \/ ServiceShutdown
    \/ ServiceEvent(TRUE, TRUE)
    \/ Tick
    \/ \E w \in 1..MaxWorkers, resp \in SigResponses : SigCheck(w, resp)
    \/ \E w \in 1..MaxWorkers : WorkerTick(w)
    \/ \E w \in 1..MaxWorkers : WorkerStop(w)
    \/ \E sig \in {"HUP", "INT", "TERM"} : SigSend(sig)
    \/ \E op \in {"add", "remove"} : CliLoad(op, SigJob)
    \/ CliSave

\* The Controller goroutine keeps running and its select serves a case that
\* stays ready: a signal stays in sigChan and an event in events until the
\* Controller takes it, and the ticker keeps firing. Nothing is assumed
\* about the workers, the operator or the remote end.
SpecSig ==
    /\ InitSig
    /\ [][NextSig]_vars
    /\ WF_vars(Startup(TRUE, TRUE))
    /\ WF_vars(ServiceReload(TRUE))
    /\ WF_vars(ServiceShutdown)
    /\ WF_vars(ServiceEvent(TRUE, TRUE))
    /\ WF_vars(Tick)

\* ---------------------------------------- one job, added once
\* The job was added before the daemon started and nobody adds or removes
\* anything afterwards; the operator sends signals, the probe answers
\* building or finished as often as a worker asks, and a store.Update of
\* the Router can fail. With no removal from outside a stop channel is
\* closed only after its worker has returned, or by the shutdown that ends
\* the process: no WorkerStop here.
InitOnce ==
    /\ InitSig
    /\ SigJob \in DOMAIN store

OnceCheck(w, building) ==
    /\ fake \in {"quiet", "asked"}
    /\ Check(w, Resp("ok", 200, TRUE, building,
                     IF building THEN "" ELSE "SUCCESS"))
    /\ UNCHANGED <<mem, fake, nIn>>

NextOnce ==
    \/ Startup(TRUE, TRUE)
    \/ ServiceReload(TRUE)
    \/ ServiceShutdown
    \/ \E updOK \in BOOLEAN : ServiceEvent(updOK, TRUE)
    \/ Tick
    \/ \E w \in 1..MaxWorkers, building \in BOOLEAN : OnceCheck(w, building)
    \/ \E w \in 1..MaxWorkers : WorkerTick(w)
    \/ \E sig \in {"HUP", "INT", "TERM"} : SigSend(sig)

SpecOnce == InitOnce /\ [][NextOnce]_vars

\* ---------------------------------------- the loop stopped from outside
\* runDaemonLoop run in a goroutine by a process that closes Stop when it
\* likes and goes on afterwards: the workers are goroutines of that
\* process. One job, stored at the start, which jw remove and jw add take
\* out and put back; every probe finds the build still running.
InitEmbedded ==
    /\ ctl = "init"
    /\ sigChan = <<>>
    /\ events = <<>>
    /\ activeJobs = EmptyMap
    /\ store = [j \in {SigJob} |-> Job(0, FALSE)]
    /\ workers = <<>>
    /\ closed = {}
    /\ sent = EmptyBag
    /\ cli = CliIdle
    /\ fake = "embedded"
    /\ nIn = 0
    /\ mem = EmptyMap
    /\ last = NoObs

EmbeddedCheck(w) ==
    /\ fake = "embedded"
    /\ Check(w, Resp("ok", 200, TRUE, TRUE, ""))
    /\ UNCHANGED <<mem, fake, nIn>>

NextEmbedded ==
    \/ Startup(TRUE, TRUE)
    \/ ServiceReload(TRUE)
    \/ ServiceEvent(TRUE, TRUE)
    \/ ServiceStop
    \/ Tick
    \/ \E w \in 1..MaxWorkers : EmbeddedCheck(w)
    \/ \E w \in 1..MaxWorkers : WorkerTick(w)
    \/ \E w \in 1..MaxWorkers : WorkerStop(w)
    \/ \E op \in {"add", "remove"} : CliLoad(op, SigJob)
    \/ CliSave

\* The Controller's select serves a case that stays ready; every worker
\* goroutine that can run does run: its ticker keeps firing, a push that
\* can complete again and again does complete (blocked senders are queued
\* first-in first-out), and a select that finds the closed stop channel
\* ready again and again takes it. Stop is closed when the embedding
\* process likes, or never.
SpecEmbedded ==
    /\ InitEmbedded
    /\ [][NextEmbedded]_vars
    /\ WF_vars(Startup(TRUE, TRUE))
    /\ WF_vars(ServiceReload(TRUE))
    /\ WF_vars(ServiceEvent(TRUE, TRUE))
    /\ WF_vars(Tick)
    /\ \A w \in 1..MaxWorkers :
          /\ SF_vars(EmbeddedCheck(w))
          /\ WF_vars(WorkerTick(w))
          /\ SF_vars(WorkerStop(w))

\* ---------------------------------------- one worker and its ticker
\* MonitorJob called with any pollInterval by a caller that receives from
\* the events channel when it likes; every probe finds the build running.
\* The worker's record also holds the argument, the interval of its ticker
\* and the seconds waited since the last check; ctl stays "init", there is
\* no Controller.
PollIntervals == ((0 - MaxPoll)..MaxPoll) \cup {pollingInterval + 1}

InitPoll ==
    /\ ctl = "init"
    /\ sigChan = <<>>
    /\ events = <<>>
    /\ activeJobs = EmptyMap
    /\ store = EmptyMap
    /\ workers = <<>>
    /\ closed = {}
    /\ sent = EmptyBag
    /\ cli = CliIdle
    /\ fake = "poll"
    /\ nIn = 0
    /\ mem = EmptyMap
    /\ last = NoObs

\* go MonitorJob(..., pollInterval, stop) up to the first check: the guard,
\* then time.NewTicker, which panics on an interval that is not positive.
PollStart(pollInterval) ==
    /\ fake = "poll"
    /\ ctl = "init"
    /\ workers = <<>>
    /\ LET d == pollIntervalGuard(pollInterval) IN
       IF d <= 0
       THEN /\ ctl' = "panicked"
            /\ UNCHANGED workers
       ELSE /\ workers' = <<MonitorJob(SigJob) @@
                             [arg |-> pollInterval, pollInterval |-> d,
                              elapsed |-> 0]>>
            /\ UNCHANGED ctl
    /\ last' = NoObs
    /\ UNCHANGED <<mem, sigChan, events, activeJobs, store, closed, sent, cli,
                   fake, nIn>>

PollCheck(w) ==
    /\ fake = "poll"
    /\ Check(w, Resp("ok", 200, TRUE, TRUE, ""))
    /\ UNCHANGED <<mem, fake, nIn>>

\* A second passes while the worker waits in its select.
PollElapse(w) ==
    /\ fake = "poll"
    /\ ProcessAlive
    /\ w \in DOMAIN workers
    /\ workers[w].pc = "wait"
    /\ workers[w].elapsed < workers[w].pollInterval
    /\ workers' = [workers EXCEPT ![w].elapsed = @ + 1]
    /\ last' = NoObs
    /\ UNCHANGED <<mem, ctl, sigChan, events, activeJobs, store, closed, sent,
                   cli, fake, nIn>>

\* select, case <-ticker.C: the ticker fires when its interval has passed.
PollTick(w) ==
    /\ fake = "poll"
    /\ ProcessAlive
    /\ w \in DOMAIN workers
    /\ workers[w].pc = "wait"
    /\ workers[w].elapsed = workers[w].pollInterval
    /\ workers' = [workers EXCEPT ![w].pc = "check", ![w].elapsed = 0]
    /\ last' = NoObs
    /\ UNCHANGED <<mem, ctl, sigChan, events, activeJobs, store, closed, sent,
                   cli, fake, nIn>>

\* The caller receives an event.
PollReceive ==
    /\ fake = "poll"
    /\ events # <<>>
    /\ events' = Tail(events)
    /\ last' = NoObs
    /\ UNCHANGED <<mem, ctl, sigChan, activeJobs, store, workers, closed, sent,
                   cli, fake, nIn>>

NextPoll ==
    \/ \E p \in PollIntervals : PollStart(p)
    \/ PollCheck(1)
    \/ PollElapse(1)
    \/ PollTick(1)
    \/ PollReceive

SpecPoll == InitPoll /\ [][NextPoll]_vars

\* ---------------------------------------- a client of pkg/config
\* One process (a test, a CLI command, the native-messaging host) that
\* calls the store and the Config methods while no daemon runs. `store` is
\* the jobs file, `mem` the Config objects the process holds (a pointer is
\* an index of mem), `nIn` counts the calls and is the clock time.Now reads,
\* and `last` tells what the last call was and returned.

\* The Jobs maps a file or an object can hold at the start: any subset of
\* Jobs, each job with either flag, added at time 0.
Configs ==
    UNION {[S -> {Job(0, f) : f \in BOOLEAN}] : S \in SUBSET Jobs}

\* The strings handed to handleNativeAdd: the job URLs and two strings
\* that are not http(s) URLs.
NativeURLs == Jobs \cup {"ftp", "bare"}
URLPrefix(u) ==
    IF u = JobOrder[1] THEN "http://"
    ELSE IF u \in Jobs THEN "https://"
    ELSE IF u = "ftp" THEN "ftp://"
    ELSE ""
\* strings.HasPrefix(u, prefix), for the prefixes that occur.
HasPrefix(u, prefix) == URLPrefix(u) = prefix

\* Load that hands out the object it handed out first (a cached instance).
loadFromDiskCached(disk) == IF mem # <<>> THEN mem[1] ELSE disk

\* func loadFromDisk() (*Config, error): a new Config decoded from the
\* file; a missing file and a file without "jobs" give an empty map. Every
\* field of Job is written and read back as it is.
loadFromDisk(disk) == [j \in DOMAIN disk |-> disk[j]]

\* func saveToDisk(config *Config) error: the whole file is rewritten.
saveToDisk(disk, cfg) == [j \in DOMAIN cfg |-> cfg[j]]

\* What the last call was: op, the pointer and job (or string) it was
\* about, the flag passed, the bool returned, for a native-messaging
\* request whether credentials were there and the response, and the call
\* made before this one.
StoreObs(op, ptr, job, failed, changed, creds, resp) ==
    [op |-> op, ptr |-> ptr, job |-> job, failed |-> failed,
     changed |-> changed, creds |-> creds, resp |-> resp, prev |-> last.op]
NoResp == [Success |-> FALSE, Message |-> "", Error |-> ""]

InitStore ==
    /\ ctl = "init"
    /\ sigChan = <<>>
    /\ events = <<>>
    /\ activeJobs = EmptyMap
    /\ store \in Stores
    /\ workers = <<>>
    /\ closed = {}
    /\ sent = EmptyBag
    /\ cli = CliIdle
    /\ fake = "off"
    /\ nIn = 0
    /\ mem \in {<<c>> : c \in Configs}
    /\ last = [op |-> "none", ptr |-> 0, job |-> "", failed |-> FALSE,
               changed |-> FALSE, creds |-> TRUE, resp |-> NoResp,
               prev |-> "none"]

\* One more call: the clock moves, the daemon's state stays as it is.
Call ==
    /\ nIn < MaxInputs
    /\ nIn' = nIn + 1
    /\ UNCHANGED <<ctl, sigChan, events, activeJobs, workers, closed, sent,
                   cli, fake>>

\* cfg, err := store.Load(): a new object read from the file.
StoreLoad ==
    /\ Call
    /\ mem' = Append(mem, loadFromDisk(store))
    /\ last' = StoreObs("Load", Len(mem) + 1, "", FALSE, FALSE, TRUE, NoResp)
    /\ UNCHANGED store

\* store.Save(cfg)
StoreSave(p) ==
    /\ Call
    /\ p \in DOMAIN mem
    /\ store' = saveToDisk(store, mem[p])
    /\ last' = StoreObs("Save", p, "", FALSE, FALSE, TRUE, NoResp)
    /\ UNCHANGED mem

\* store.Update with a callback that assigns LastCheckFailed directly when
\* the job exists (daemon.go:81-89, the first Update test).
StoreUpdateFlag(jobURL, failed) ==
    /\ Call
    /\ LET cfg == loadFromDisk(store)
           mutated == IF jobURL \in DOMAIN cfg
                      THEN Put(cfg, jobURL, Job(cfg[jobURL].StartTime, failed))
                      ELSE cfg
       IN store' = Update(store, mutated, TRUE).disk
    /\ last' = StoreObs("UpdateFlag", 0, jobURL, failed, FALSE, TRUE, NoResp)
    /\ UNCHANGED mem

\* store.Update with a callback that deletes the job directly
\* (daemon.go:96-99, the second Update test).
StoreUpdateDelete(jobURL) ==
    /\ Call
    /\ LET cfg == loadFromDisk(store)
       IN store' = Update(store, Delete(cfg, jobURL), TRUE).disk
    /\ last' = StoreObs("UpdateDelete", 0, jobURL, FALSE, FALSE, TRUE, NoResp)
    /\ UNCHANGED mem

\* c.AddJob(jobURL) on an object held in memory.
CfgAddJob(p, jobURL) ==
    /\ Call
    /\ p \in DOMAIN mem
    /\ mem' = [mem EXCEPT ![p] = AddJob(mem[p], jobURL, nIn + 1)]
    /\ last' = StoreObs("AddJob", p, jobURL, FALSE, FALSE, TRUE, NoResp)
    /\ UNCHANGED store

\* c.RemoveJob(jobURL) on an object held in memory.
CfgRemoveJob(p, jobURL) ==
    /\ Call
    /\ p \in DOMAIN mem
    /\ mem' = [mem EXCEPT ![p] = RemoveJob(mem[p], jobURL)]
    /\ last' = StoreObs("RemoveJob", p, jobURL, FALSE, FALSE, TRUE, NoResp)
    /\ UNCHANGED store

\* changed := c.UpdateJobCheckStatus(jobURL, failed) on an object held in
\* memory.
CfgUpdateJobCheckStatus(p, jobURL, failed) ==
    /\ Call
    /\ p \in DOMAIN mem
    /\ LET r == UpdateJobCheckStatus(mem[p], jobURL, failed) IN
       /\ mem' = [mem EXCEPT ![p] = r.cfg]
       /\ last' = StoreObs("UpdateJobCheckStatus", p, jobURL, failed,
                           r.changed, TRUE, NoResp)
    /\ UNCHANGED store

\* handleNativeAdd that adds before it looks at the URL and the
\* credentials.
handleNativeAddUnchecked(jobURL, credsOK, daemonOK, now) ==
    [disk |-> Update(store, AddJob(loadFromDisk(store), jobURL, now), TRUE).disk,
     resp |-> [Success |-> TRUE, Message |-> "Job added", Error |-> ""]]

\* func handleNativeAdd(jobURL string) nativeResponse: credentials, then
\* the URL prefix, then one store.Update whose callback adds the job unless
\* it is there; daemonOK is whether startDaemonIfNeeded succeeded.
\* result: [disk, resp]
handleNativeAdd(jobURL, credsOK, daemonOK, now) ==
    IF ~credsOK
    THEN [disk |-> store,
          resp |-> [Success |-> FALSE, Message |-> "", Error |-> "credentials"]]
    ELSE IF ~HasPrefix(jobURL, "http://") /\ ~HasPrefix(jobURL, "https://")
    THEN [disk |-> store,
          resp |-> [Success |-> FALSE, Message |-> "",
                    Error |-> "URL must start with http:// or https://"]]
    ELSE LET cfg == loadFromDisk(store)
             already == HasJob(cfg, jobURL)
             mutated == IF already THEN cfg ELSE AddJob(cfg, jobURL, now)
             u == Update(store, mutated, TRUE)
         IN [disk |-> u.disk,
             resp |-> IF u.err
                      THEN [Success |-> FALSE, Message |-> "",
                            Error |-> "failed to update config"]
                      ELSE IF already
                      THEN [Success |-> TRUE,
                            Message |-> "Job is already being monitored",
                            Error |-> ""]
                      ELSE IF ~daemonOK
                      THEN [Success |-> TRUE,
                            Message |-> "Job added but daemon failed to start",
                            Error |-> ""]
                      ELSE [Success |-> TRUE, Message |-> "Job added",
                            Error |-> ""]]

\* One native-messaging request.
NativeAdd(jobURL, credsOK, daemonOK) ==
    /\ Call
    /\ LET r == handleNativeAdd(jobURL, credsOK, daemonOK, nIn + 1) IN
       /\ store' = r.disk
       /\ last' = StoreObs("NativeAdd", 0, jobURL, FALSE, FALSE, credsOK,
                           r.resp)
    /\ UNCHANGED mem

NextStore ==
    \/ StoreLoad
    \/ \E p \in 1..(MaxInputs + 1) : StoreSave(p)
    \/ \E j \in Jobs, failed \in BOOLEAN : StoreUpdateFlag(j, failed)
    \/ \E j \in Jobs : StoreUpdateDelete(j)
    \/ \E p \in 1..(MaxInputs + 1), j \in Jobs : CfgAddJob(p, j)
    \/ \E p \in 1..(MaxInputs + 1), j \in Jobs : CfgRemoveJob(p, j)
    \/ \E p \in 1..(MaxInputs + 1), j \in Jobs, failed \in BOOLEAN :
          CfgUpdateJobCheckStatus(p, j, failed)
    \/ \E u \in NativeURLs, credsOK \in BOOLEAN, daemonOK \in BOOLEAN :
          NativeAdd(u, credsOK, daemonOK)

SpecStore == InitStore /\ [][NextStore]_vars

\* ------------------------------------------------------------ claims
\* C1 (as stated): for every job identifier, in every reachable state, there
\* are never two live (spawned and not yet returned) workers for it.
AtMostOneWorkerPerJob ==
    \A j \in Jobs : Cardinality(LiveWorkersOf(j)) <= 1

\* C2 (as stated): in the state right after the Event Router has processed
\* an event of a terminal kind (Finished, NotFound, Unauthorized,
\* ClientError, DNSError), the job is in neither the store nor activeJobs.
TerminalEventImpliesRemoval ==
    (last.op = "event" /\ last.kind \in TerminalKinds)
        => (last.job \notin DOMAIN store /\ last.job \notin DOMAIN activeJobs)

\* C3: a maintenance tick served while activeJobs is empty makes startDaemon
\* return (not panic, not exit fatally), whatever is or is not in sigChan.
AutoExit ==
    [][(ctl = "running" /\ DOMAIN activeJobs = {} /\ last'.op = "tick")
          => ctl' = "returned"]_vars

\* The one job finished (one probe, no signal, no CLI command), the router
\* removed it, and the tick served right after made the daemon return.
AutoExitWitness ==
    /\ last.op = "tick"
    /\ last.prev = "event"
    /\ ctl = "returned"
    /\ DOMAIN activeJobs = {}
    /\ closed # {}
    /\ BagCardinality(sent) = 1
    /\ nIn = 1

\* C4: serving SIGINT/SIGTERM, or an external stop, closes the stop channel
\* of every worker in activeJobs, and the Controller returns (no panic).
GracefulShutdown ==
    [][(last'.op \in {"shutdown", "stop"})
          => /\ Range(activeJobs) \subseteq closed'
             /\ last'.stopped = Range(activeJobs)
             /\ ctl' = "returned"]_vars

\* A shutdown signal served with K = 2 active jobs.
GracefulShutdownWitness ==
    /\ last.op = "shutdown"
    /\ Cardinality(DOMAIN activeJobs) = 2
    /\ Cardinality(Range(activeJobs)) = 2
    /\ Range(activeJobs) \subseteq closed
    /\ ctl = "returned"

\* C5: after a reconcile whose load succeeded, activeJobs has exactly the
\* store's job identifiers; each tracked job absent from the store has its
\* stop channel closed and its entry removed; each store job that was not
\* tracked has a new worker with a stop channel that never existed before,
\* is not closed and is shared with no other job.
StoreWinsOnReconcile ==
    [][(last'.op \in {"startup", "reload"})
          => /\ DOMAIN activeJobs' = DOMAIN store
             /\ last'.loaded = DOMAIN store
             /\ \A j \in (DOMAIN activeJobs) \ (DOMAIN store) :
                   activeJobs[j] \in closed'
             /\ \A j \in (DOMAIN store) \ (DOMAIN activeJobs) :
                   /\ activeJobs'[j] \notin DOMAIN workers
                   /\ activeJobs'[j] \in DOMAIN workers'
                   /\ workers'[activeJobs'[j]] = [job |-> j, pc |-> "check"]
                   /\ activeJobs'[j] \notin closed'
                   /\ \A k \in (DOMAIN activeJobs') \ {j} :
                         activeJobs'[k] # activeJobs'[j]]_vars

\* One reload that both stopped a removed job and started an added one.
StoreWinsOnReconcileWitness ==
    /\ last.op = "reload"
    /\ last.spawned # {}
    /\ last.stopped # {}
    /\ last.stopped \subseteq closed
    /\ DOMAIN activeJobs = DOMAIN store

\* C6: a reconcile served right after a reconcile (startup's or a reload's),
\* with nothing but signal deliveries in between, spawns no worker, closes
\* no stop channel and leaves activeJobs as the first one produced it.
ReconcileIdempotent ==
    [][(last'.op = "reload" /\ last'.prev \in {"startup", "reload"})
          => /\ last'.spawned = {}
             /\ last'.stopped = {}
             /\ activeJobs' = activeJobs
             /\ workers' = workers
             /\ closed' = closed]_vars

\* Two reloads in a row with a job tracked.
ReconcileIdempotentWitness ==
    /\ last.op = "reload"
    /\ last.prev = "reload"
    /\ DOMAIN activeJobs # {}
    /\ last.spawned = {}
    /\ last.stopped = {}

\* C7: for every job both tracked and in the loaded store, reconcile keeps
\* its activeJobs entry (the same stop channel), does not close it, starts
\* no other worker for it and does not touch its worker.
ReconcileKeepsTracked ==
    [][(last'.op \in {"startup", "reload"})
          => \A j \in (DOMAIN activeJobs) \cap (DOMAIN store) :
                /\ j \in DOMAIN activeJobs'
                /\ activeJobs'[j] = activeJobs[j]
                /\ activeJobs[j] \in closed' => activeJobs[j] \in closed
                /\ j \notin last'.spawned
                /\ {w \in DOMAIN workers' : workers'[w].job = j}
                      = {w \in DOMAIN workers : workers[w].job = j}
                /\ workers'[activeJobs[j]] = workers[activeJobs[j]]]_vars

\* Two jobs were tracked, one was removed from outside: the reload stopped
\* that one's worker only, the other's is live with its channel open.
ReconcileKeepsTrackedWitness ==
    /\ last.op = "reload"
    /\ Cardinality(last.stopped) = 1
    /\ last.stopped \subseteq closed
    /\ last.spawned = {}
    /\ Cardinality(DOMAIN activeJobs) = 1
    /\ \A j \in DOMAIN activeJobs :
          activeJobs[j] \notin closed /\ Live(activeJobs[j])

\* C8: handling a routine-check event (StatusChecked or Error) for a job that
\* is in the store and tracked leaves it in the store and tracked, with the
\* same open stop channel, and its LastCheckFailed equal to the event's
\* Failed flag; so after N such events the flag is the last event's.
RoutineCheckKeepsJob ==
    [][(/\ last'.op = "event"
        /\ last'.kind \in RoutineKinds
        /\ last'.job \in DOMAIN store
        /\ last'.job \in DOMAIN activeJobs)
          => /\ DOMAIN store' = DOMAIN store
             /\ store'[last'.job].LastCheckFailed = last'.failed
             /\ activeJobs' = activeJobs
             /\ closed' = closed
             /\ sent' = sent]_vars

\* The second of two events handled in a row was a routine check that
\* reported a failure: the job is still stored and tracked, flag set.
RoutineCheckKeepsJobWitness ==
    /\ last.op = "event"
    /\ last.prev = "event"
    /\ last.kind \in RoutineKinds
    /\ last.failed
    /\ last.job \in DOMAIN store
    /\ last.job \in DOMAIN activeJobs
    /\ store[last.job].LastCheckFailed

\* C9 (as stated): two routine-check events for the same job with the same
\* Failed flag, handled one right after the other, write the store at most
\* once; and a routine-check event whose flag equals the stored
\* LastCheckFailed writes nothing.
NoOpWriteSuppression ==
    [][/\ (/\ last.op = "event" /\ last.kind \in RoutineKinds
           /\ last'.op = "event" /\ last'.kind \in RoutineKinds
           /\ last'.job = last.job /\ last'.failed = last.failed)
             => last.wrote + last'.wrote <= 1
       /\ (/\ last'.op = "event" /\ last'.kind \in RoutineKinds
           /\ last'.job \in DOMAIN store
           /\ store[last'.job].LastCheckFailed = last'.failed)
             => last'.wrote = 0]_vars

\* C10: in the end-to-end scenario the system reaches, and stays in, a state
\* where the store has no job, exactly one notification was sent ("Jenkins
\* Job Completed", for the job's URL) and the Controller has returned.
EndToEndCompletion ==
    <>[](/\ ctl = "returned"
         /\ DOMAIN store = {}
         /\ sent = SetToBag({[title |-> "Jenkins Job Completed",
                              url |-> E2EJob]}))

\* The end of the scenario: the flip happened, the job is gone, the one
\* notification is out, the tick after the removal made the loop return.
EndToEndCompletionWitness ==
    /\ fake = "finished"
    /\ ctl = "returned"
    /\ last.op = "tick"
    /\ DOMAIN store = {}
    /\ DOMAIN activeJobs = {}
    /\ BagCardinality(sent) = 1
    /\ BagIn([title |-> "Jenkins Job Completed", url |-> E2EJob], sent)
    /\ sigChan = <<>>

\* C11 (as stated): in every reachable state a job identifier is in
\* activeJobs if and only if a worker for it is running (spawned and not
\* yet returned).
ActiveJobSetInvariant ==
    \A j \in Jobs : (j \in DOMAIN activeJobs) <=> (LiveWorkersOf(j) # {})

\* For every job and every answer of the probe, checkJobStatus asks the
\* worker to stop exactly when the event it built is terminal, and a valid
\* answer yields Finished exactly when the build is no longer running.
StopExactlyOnTerminal ==
    \A job \in Jobs, resp \in Responses :
        LET r == checkJobStatus(job, resp) IN
        /\ r.shouldStop <=> r.event.Kind \in TerminalKinds
        /\ ~r.shouldStop <=> r.event.Kind \in RoutineKinds
        /\ (resp.transport = "ok" /\ resp.code = 200 /\ resp.valid)
              => (r.event.Kind = EventFinished <=> ~resp.Building)

\* C12: a worker returns exactly when the check it just made produced a
\* terminal event (Finished for every non-building answer, whatever the
\* result string; NotFound, Unauthorized, ClientError, DNSError) or when it
\* sees its stop channel closed while waiting; after a routine outcome
\* (StatusChecked, Error) it waits and then checks again; once returned it
\* stays returned.
WorkerStateMachine ==
    [][/\ Len(events') > Len(events) => StopExactlyOnTerminal
       /\ \A w \in DOMAIN workers :
             /\ (workers[w].pc = "check" /\ workers'[w].pc # "check")
                   => /\ Len(events') = Len(events) + 1
                      /\ events'[Len(events')].JobURL = workers[w].job
                      /\ workers'[w].pc = "done"
                            <=> events'[Len(events')].Kind \in TerminalKinds
                      /\ workers'[w].pc = "wait"
                            <=> events'[Len(events')].Kind \in RoutineKinds
             /\ (workers[w].pc = "wait" /\ workers'[w].pc = "done")
                   => (w \in closed /\ events' = events)
             /\ (workers[w].pc = "wait" /\ workers'[w].pc # "wait")
                   => workers'[w].pc \in {"check", "done"}
             /\ workers[w].pc = "done" => workers'[w].pc = "done"]_vars

\* A worker returned after a non-building answer with a result string the
\* program does not know; its Finished event is the newest in the channel.
WorkerStateMachineWitness ==
    \E w \in DOMAIN workers :
        /\ workers[w].pc = "done"
        /\ w \notin closed
        /\ events # <<>>
        /\ events[Len(events)] =
              JobEvent(workers[w].job, EventFinished, "UNSTABLE", FALSE)

\* C13 (amended): whenever an event is pending, for every answer the probe
\* of its job can fail with: status 404 is classified NotFound, 401 and 403
\* Unauthorized, every other 4xx status except 429 ClientError, a DNS
\* not-found failure DNSError (all four make the worker return); every other
\* failure (timeout, 5xx, 429, a 200 whose body does not decode) is
\* classified Error and the worker retries.
OutcomeClassification ==
    events # <<>> =>
        \A resp \in Responses :
            LET g == GetJobStatus(resp)
                r == checkJobStatus(Head(events).JobURL, resp)
                expected ==
                    IF resp.transport = "ok" /\ resp.code = 404
                    THEN EventNotFound
                    ELSE IF resp.transport = "ok" /\ resp.code \in {401, 403}
                    THEN EventUnauthorized
                    ELSE IF /\ resp.transport = "ok"
                            /\ resp.code >= 400 /\ resp.code < 500
                            /\ resp.code # 429
                    THEN EventClientError
                    ELSE IF resp.transport = "dns"
                    THEN EventDNSError
                    ELSE EventError
            IN g.err => /\ r.event.Kind = expected
                        /\ r.event.Failed
                        /\ r.shouldStop <=> (expected # EventError)

\* A transient failure and a client error have both been classified: an
\* Error event from a worker that went back to waiting, and a ClientError
\* event from a worker that returned.
OutcomeClassificationWitness ==
    \E i, k \in 1..Len(events) :
        /\ events[i].Kind = EventError
        /\ events[k].Kind = EventClientError
        /\ \E w \in DOMAIN workers :
              workers[w].job = events[i].JobURL /\ workers[w].pc = "wait"
        /\ \E w \in DOMAIN workers :
              workers[w].job = events[k].JobURL /\ workers[w].pc = "done"

\* C13 (as stated): as above, but every 4xx status other than 404, 401 and
\* 403 is classified ClientError.
OutcomeClassificationEvery4xx ==
    events # <<>> =>
        \A resp \in Responses :
            LET g == GetJobStatus(resp)
                r == checkJobStatus(Head(events).JobURL, resp)
                expected ==
                    IF resp.transport = "ok" /\ resp.code = 404
                    THEN EventNotFound
                    ELSE IF resp.transport = "ok" /\ resp.code \in {401, 403}
                    THEN EventUnauthorized
                    ELSE IF /\ resp.transport = "ok"
                            /\ resp.code >= 400 /\ resp.code < 500
                    THEN EventClientError
                    ELSE IF resp.transport = "dns"
                    THEN EventDNSError
                    ELSE EventError
            IN g.err => /\ r.event.Kind = expected
                        /\ r.event.Failed
                        /\ r.shouldStop <=> (expected # EventError)

\* C14 (as stated): a worker that is between two probes and whose stop
\* channel is closed never starts another probe (and so emits no further
\* event): its next step is to return.
StopPreemptsPolling ==
    [][\A w \in DOMAIN workers :
          (workers[w].pc = "wait" /\ w \in closed)
              => workers'[w].pc # "check"]_vars

\* C15: while the Controller runs, a worker that has an event to push gets
\* to push it, also when the channel (capacity 10) was full, and every event
\* in the channel is received by the Controller: whenever the channel is not
\* empty its head gets handled, and the channel is first-in first-out.
EventPushCompletes ==
    /\ \A w \in 1..Len(JobOrder) :
          (w \in DOMAIN workers /\ workers[w].pc = "check")
             ~> (\/ ctl # "running"
                 \/ (w \in DOMAIN workers /\ workers[w].pc # "check"))
    /\ (events # <<>>) ~> (last.op = "event" \/ ctl # "running")

\* The channel is full with events of both jobs, one of them terminal, and
\* a worker has a further event to push.
EventPushCompletesWitness ==
    /\ ctl = "running"
    /\ Len(events) = EventsCap
    /\ \E i, k \in 1..Len(events) :
          /\ events[i].JobURL # events[k].JobURL
          /\ events[i].Kind \in TerminalKinds
    /\ \E w \in DOMAIN workers : workers[w].pc = "check"

\* C16: no step closes a stop channel that is already closed (the close
\* would panic); the channels a removal or a reconcile closes are exactly
\* the ones whose activeJobs entries it deletes; and a terminal event for a
\* job with no activeJobs entry closes nothing.
NoDoubleClose ==
    [][/\ ctl' # "panicked"
       /\ last'.stopped \cap closed = {}
       /\ closed' = closed \cup last'.stopped
       /\ last'.op \in {"event", "reload", "startup"}
             => last'.stopped = Range(activeJobs) \ Range(activeJobs')
       /\ (last'.op = "event" /\ last'.job \notin DOMAIN activeJobs)
             => closed' = closed]_vars

\* A Finished event of a worker that a reload had already stopped and
\* untracked was handled: nothing was closed by it.
NoDoubleCloseWitness ==
    /\ last.op = "event"
    /\ last.kind = EventFinished
    /\ last.stopped = {}
    /\ ctl = "running"
    /\ \E w \in closed : workers[w].job = last.job

\* C17: a reconcile whose store load fails stops no worker, spawns none,
\* leaves activeJobs as it was and the Controller running; and a reload
\* whose load succeeds, also right after a failed one, makes activeJobs'
\* keys the store's.
ReloadFailureKeepsState ==
    [][/\ last'.op = "reloadFailed"
             => /\ activeJobs' = activeJobs
                /\ workers' = workers
                /\ closed' = closed
                /\ store' = store
                /\ last'.spawned = {} /\ last'.stopped = {}
                /\ ctl' = "running"
       /\ last'.op = "reload"
             => /\ DOMAIN activeJobs' = DOMAIN store
                /\ ctl' = "running"]_vars

\* A job was added while one was tracked, the reload for it failed to load
\* the store, and the next reload loaded it and started the new worker.
ReloadFailureKeepsStateWitness ==
    /\ last.op = "reload"
    /\ last.prev = "reloadFailed"
    /\ Cardinality(last.spawned) = 1
    /\ Cardinality(DOMAIN activeJobs) = 2
    /\ DOMAIN activeJobs = DOMAIN store
    /\ ctl = "running"

\* C18: when the initial store load fails, startDaemon exits fatally: it
\* does not reach the loop (no case is ever served, the exit is final) and
\* no worker has been or will be started.
FatalStartup ==
    [][/\ last'.op = "fatal"
             => /\ ctl = "init" /\ ctl' = "fatal"
                /\ workers' = <<>> /\ DOMAIN activeJobs' = {}
       /\ ctl = "fatal"
             => /\ ctl' = "fatal"
                /\ workers' = <<>> /\ DOMAIN activeJobs' = {}
                /\ closed' = {} /\ events' = <<>> /\ sent' = EmptyBag
                /\ last'.op = "fatal"]_vars

\* The jobs file held jobs, the initial load failed: fatal, no worker.
FatalStartupWitness ==
    /\ ctl = "fatal"
    /\ last.op = "fatal"
    /\ DOMAIN store = Jobs
    /\ workers = <<>>
    /\ DOMAIN activeJobs = {}

\* C19: when the Router handles a Finished event and the notification is not
\* delivered (notify.Send returned an error), the job's activeJobs entry is
\* still deleted and its stop channel closed, the job is deleted from the
\* store whenever the store update went through, and the Controller goes on
\* running.
NotifyFailureStillRemoves ==
    [][(/\ last'.op = "event"
        /\ last'.kind = EventFinished
        /\ last'.notified = 0)
          => /\ sent' = sent
             /\ last'.job \notin DOMAIN activeJobs'
             /\ last'.job \in DOMAIN activeJobs
                   => /\ activeJobs[last'.job] \in closed'
                      /\ last'.stopped = {activeJobs[last'.job]}
             /\ last'.wrote = 1 => last'.job \notin DOMAIN store'
             /\ ctl' = "running"]_vars

\* A tracked, stored job finished, the notification failed, the job is gone
\* from both places and its stop channel is closed.
NotifyFailureStillRemovesWitness ==
    /\ last.op = "event"
    /\ last.kind = EventFinished
    /\ last.notified = 0
    /\ last.wrote = 1
    /\ last.stopped # {}
    /\ last.stopped \subseteq closed
    /\ last.job \notin DOMAIN store
    /\ last.job \notin DOMAIN activeJobs
    /\ sent = EmptyBag
    /\ ctl = "running"

\* C20 (as stated): right after the Router handled a NotFound, Unauthorized,
\* ClientError or DNSError event (store and notifier working), exactly one
\* notification was sent for it, for NotFound the "Jenkins Job Not Found"
\* one, and the job is in neither the store nor activeJobs.
TerminalRemoteNotifiesAndRemoves ==
    (/\ last.op = "event"
     /\ last.kind \in {EventNotFound, EventUnauthorized, EventClientError,
                       EventDNSError})
        => /\ last.notified = 1
           /\ last.kind = EventNotFound
                 => BagIn([title |-> "Jenkins Job Not Found",
                           url |-> last.job], sent)
           /\ last.job \notin DOMAIN store
           /\ last.job \notin DOMAIN activeJobs

\* C21 (as stated): every step that changes the job store applies one
\* mutation (add one job, remove one job, or flip one job's
\* LastCheckFailed) to the store as it is on disk at that step, so no
\* writer's save undoes what another writer wrote in between.
AtomicStoreMutations ==
    [][store' # store =>
          \E j \in Jobs :
             \/ store' = AddJob(store, j, 0)
             \/ store' = RemoveJob(store, j)
             \/ /\ HasJob(store, j)
                /\ store' = UpdateJobCheckStatus(
                               store, j, ~store[j].LastCheckFailed).cfg]_vars

\* Job k has the same entry (absent, or the same record) in stores a and b.
SameEntry(a, b, k) ==
    /\ k \in DOMAIN a <=> k \in DOMAIN b
    /\ k \in DOMAIN a => a[k] = b[k]

EveryEventConsumed ==
    ctl = "returned" => events = <<>>

\* C24: the Controller services one source per step and finishes it in that
\* step. A step takes at most one item from the signal channel and the
\* event channel together; a step that takes an event is the Router's
\* handling of exactly that event, store mutation included, and spawns no
\* worker; a step that takes a signal is a reload or a shutdown and neither
\* writes the store nor notifies; notifications happen only in a step that
\* takes an event, workers are spawned only by a reconciliation, and
\* activeJobs changes only in a reconciliation or in the Router.
SerializedServicing ==
    [][LET tookSignal == Len(sigChan') < Len(sigChan)
           tookEvent == Len(events') < Len(events)
       IN /\ ~(tookSignal /\ tookEvent)
          /\ tookEvent
                => /\ events' = Tail(events)
                   /\ last'.op = "event"
                   /\ last'.job = Head(events).JobURL
                   /\ last'.kind = Head(events).Kind
                   /\ store' = handleJobEvent(Head(events), TRUE, TRUE).disk
                   /\ DOMAIN workers' = DOMAIN workers
          /\ tookSignal
                => /\ sigChan' = Tail(sigChan)
                   /\ last'.op \in {"reload", "shutdown"}
                   /\ events' = events
                   /\ store' = store
                   /\ sent' = sent
          /\ last'.op = "event" => tookEvent
          /\ last'.op \in {"reload", "shutdown"} => tookSignal
          /\ last'.op \in {"startup", "stop", "tick"}
                => (sigChan' = sigChan /\ events' = events /\ store' = store
                    /\ sent' = sent)
          /\ sent' # sent => tookEvent
          /\ DOMAIN workers' # DOMAIN workers
                => last'.op \in {"startup", "reload"}
          /\ activeJobs' # activeJobs
                => last'.op \in {"startup", "reload", "event"}]_vars

\* A signal and an event are pending together and the Router has just
\* handled an event with a store write: the Controller had two sources
\* ready and served one.
SerializedServicingWitness ==
    /\ ctl = "running"
    /\ sigChan # <<>>
    /\ events # <<>>
    /\ last.op = "event"
    /\ last.wrote = 1

\* C25: no step of the Controller or of the Router adds a job to the store.
\* Startup, reload, shutdown, stop and tick leave the store as it is; the
\* handling of a routine-check event (StatusChecked, Error) keeps the set of
\* stored jobs, leaves every other job and the job's StartTime alone, and
\* does not re-create a job that is gone; the handling of a Finished or
\* NotFound event only deletes the event's job; every other event leaves
\* the store as it is.
DaemonNeverCreatesJobs ==
    [][last'.op # "none" =>
          /\ DOMAIN store' \subseteq DOMAIN store
          /\ last'.op # "event" => store' = store
          /\ (last'.op = "event" /\ last'.kind \in RoutineKinds)
                => /\ DOMAIN store' = DOMAIN store
                   /\ \A k \in DOMAIN store :
                         /\ store'[k].StartTime = store[k].StartTime
                         /\ k # last'.job => store'[k] = store[k]
          /\ (last'.op = "event" /\ last'.kind \in {EventFinished, EventNotFound})
                => store' \in {store, RemoveJob(store, last'.job)}
          /\ (/\ last'.op = "event"
              /\ last'.kind \notin RoutineKinds \cup {EventFinished, EventNotFound})
                => store' = store]_vars

\* The Router has handled a routine-check event, writing the file, for a
\* job that is not in the store: the job was removed from outside while its
\* event was queued, and it was not re-created.
DaemonNeverCreatesJobsWitness ==
    /\ last.op = "event"
    /\ last.kind \in RoutineKinds
    /\ last.wrote = 1
    /\ last.job \notin DOMAIN store

\* C26: AddJob of a URL that is present leaves the object as it is (one
\* entry for the URL, its StartTime and flag kept); AddJob of a new URL adds
\* exactly one entry and keeps the others; so the number of entries grows
\* by one exactly for each distinct URL added. No other object changes.
JobsUniqueByURL ==
    [][last'.op = "AddJob" =>
          LET p == last'.ptr
              j == last'.job
          IN /\ DOMAIN mem'[p] = DOMAIN mem[p] \cup {j}
             /\ j \in DOMAIN mem[p] => mem'[p] = mem[p]
             /\ j \notin DOMAIN mem[p]
                   => /\ Cardinality(DOMAIN mem'[p])
                            = Cardinality(DOMAIN mem[p]) + 1
                      /\ mem'[p][j] = Job(nIn', FALSE)
                      /\ \A k \in DOMAIN mem[p] : mem'[p][k] = mem[p][k]
             /\ \A q \in DOMAIN mem \ {p} : mem'[q] = mem[q]]_vars

\* AddJob was just called for a URL whose entry is older than the call and
\* carries a set flag: a duplicate add that kept the entry.
JobsUniqueByURLWitness ==
    /\ last.op = "AddJob"
    /\ last.job \in DOMAIN mem[last.ptr]
    /\ mem[last.ptr][last.job].StartTime < nIn
    /\ mem[last.ptr][last.job].LastCheckFailed

\* C27: UpdateJobCheckStatus(url, failed) returns true exactly when the job
\* exists and its LastCheckFailed differs from failed; then the flag
\* becomes failed and nothing else changes. Otherwise (equal flag, or no
\* such job) it returns false and the object is as before. It never adds
\* or removes an entry, and no other object changes.
UpdateJobCheckStatusContract ==
    [][last'.op = "UpdateJobCheckStatus" =>
          LET p == last'.ptr
              j == last'.job
              c == mem[p]
              differs == j \in DOMAIN c /\ c[j].LastCheckFailed # last'.failed
          IN /\ last'.changed <=> differs
             /\ DOMAIN mem'[p] = DOMAIN c
             /\ differs
                   => /\ mem'[p][j].LastCheckFailed = last'.failed
                      /\ mem'[p][j].StartTime = c[j].StartTime
                      /\ \A k \in DOMAIN c \ {j} : mem'[p][k] = c[k]
             /\ ~differs => mem'[p] = c
             /\ \A q \in DOMAIN mem \ {p} : mem'[q] = mem[q]]_vars

\* UpdateJobCheckStatus(url, true) was just called on a job whose flag was
\* already set and returned false.
UpdateJobCheckStatusContractWitness ==
    /\ last.op = "UpdateJobCheckStatus"
    /\ last.job \in DOMAIN mem[last.ptr]
    /\ ~last.changed
    /\ last.failed
    /\ mem[last.ptr][last.job].LastCheckFailed

\* C28: an Update whose callback sets a job's LastCheckFailed directly, or
\* deletes a job directly, completes in its call and leaves on disk exactly
\* that mutation of what was on disk when it started; it changes no object
\* in memory; and the Load that follows it returns a config equal to the
\* file, in which the flag is as set, or the job is gone.
UpdateIsDurable ==
    [][/\ last'.op = "UpdateFlag"
             => /\ store' = IF last'.job \in DOMAIN store
                            THEN Put(store, last'.job,
                                     Job(store[last'.job].StartTime, last'.failed))
                            ELSE store
                /\ mem' = mem
       /\ last'.op = "UpdateDelete"
             => /\ store' = Delete(store, last'.job)
                /\ mem' = mem
       /\ (last'.op = "Load" /\ last.op \in {"UpdateFlag", "UpdateDelete"})
             => LET cfg == mem'[last'.ptr] IN
                /\ cfg = store
                /\ last.op = "UpdateDelete" => last.job \notin DOMAIN cfg
                /\ (last.op = "UpdateFlag" /\ last.job \in DOMAIN cfg)
                      => cfg[last.job].LastCheckFailed = last.failed]_vars

\* A Load right after an Update that set a flag returned an object with
\* the flag set, while every object held before lacks the flag.
UpdateIsDurableWitness ==
    /\ last.op = "Load"
    /\ last.prev = "UpdateFlag"
    /\ \E j \in DOMAIN mem[last.ptr] :
          /\ mem[last.ptr][j].LastCheckFailed
          /\ \A q \in DOMAIN mem \ {last.ptr} :
                j \in DOMAIN mem[q] /\ ~mem[q][j].LastCheckFailed

NativeAddContract ==
    [][last'.op = "NativeAdd" =>
          LET u == last'.job
              r == last'.resp
              valid == HasPrefix(u, "http://") \/ HasPrefix(u, "https://")
          IN /\ (~last'.creds \/ ~valid)
                   => (~r.Success /\ r.Error # "" /\ store' = store)
             /\ (last'.creds /\ valid /\ u \in DOMAIN store)
                   => /\ r.Success
                      /\ r.Error = ""
                      /\ r.Message = "Job is already being monitored"
                      /\ store' = store
             /\ (last'.creds /\ valid /\ u \notin DOMAIN store)
                   => /\ r.Success
                      /\ r.Error = ""
                      /\ store' = Put(store, u, Job(nIn', FALSE))
             /\ mem' = mem]_vars

\* The same URL was added twice in a row: the second request answered
\* "already being monitored" and the entry is the first request's.
NativeAddContractWitness ==
    /\ last.op = "NativeAdd"
    /\ last.prev = "NativeAdd"
    /\ last.resp.Message = "Job is already being monitored"
    /\ store[last.job].StartTime = nIn - 1

\* C31: every probe of a worker pushes exactly one event. A step in which a
\* worker leaves its check appends one event, for that worker's job and of
\* one of the seven kinds, to the channel and leaves the events before it
\* in place; at most one worker leaves a check per step; and the channel
\* grows in no other step.
OneEventPerProbe ==
    [][LET probed == {w \in DOMAIN workers :
                         workers[w].pc = "check" /\ workers'[w].pc # "check"}
       IN /\ Cardinality(probed) <= 1
          /\ \A w \in probed :
                /\ Len(events') = Len(events) + 1
                /\ SubSeq(events', 1, Len(events)) = events
                /\ events'[Len(events')].JobURL = workers[w].job
                /\ events'[Len(events')].Kind \in RoutineKinds \cup TerminalKinds
          /\ Len(events') > Len(events) => probed # {}]_vars

\* A worker's probe failed with a DNS not-found error: its one event is the
\* newest in the channel and the worker has returned by itself.
OneEventPerProbeWitness ==
    \E w \in DOMAIN workers :
        /\ workers[w].pc = "done"
        /\ w \notin closed
        /\ events # <<>>
        /\ events[Len(events)] = JobEvent(workers[w].job, EventDNSError, "", TRUE)

\* C32 (as stated): the Router's handling of a terminal event stops only a
\* worker that has returned by itself (the one that emitted the event), and
\* deletes a job from the store only when the worker tracked for it, if
\* any, has returned by itself: an event left over from an earlier worker
\* of a job harms neither the job's new worker nor its store entry.
StaleTerminalEventHarmless ==
    [][(last'.op = "event" /\ last'.kind \in TerminalKinds) =>
          /\ \A w \in last'.stopped : workers[w].pc = "done"
          /\ (/\ last'.job \in DOMAIN store
              /\ last'.job \notin DOMAIN store'
              /\ last'.job \in DOMAIN activeJobs)
                => workers[activeJobs[last'.job]].pc = "done"]_vars

\* C33 (as stated): whenever the Controller returns through the auto-exit
\* path of the maintenance tick, the Durable Store contains no jobs.
AutoExitOnlyWithEmptyStore ==
    [][(ctl = "running" /\ ctl' = "returned" /\ last'.op = "tick") =>
          DOMAIN store' = {}]_vars

\* C34 (as stated): a worker that has returned by itself after a terminal
\* event and is still tracked is eventually untracked by the Controller
\* (here even only while the Controller keeps running).
SelfTerminatedEventuallyUntracked ==
    \A w \in 1..MaxWorkers :
       (/\ ctl = "running"
        /\ w \in DOMAIN workers
        /\ workers[w].pc = "done"
        /\ w \notin closed
        /\ w \in Range(activeJobs))
          ~> (ctl # "running" \/ w \notin Range(activeJobs))

\* C35 (as stated): once a SIGINT or SIGTERM has been sent to the running
\* daemon, the Controller eventually has every stop channel of the Active
\* Job Set closed and has returned.
ShutdownSignalNeverLost ==
    (fake = "asked") ~> (ctl = "returned" /\ Range(activeJobs) \subseteq closed)

AtMostOneTerminalNotification ==
    \A j \in Jobs :
       BagCardinality([n \in {m \in DOMAIN sent : m.url = j} |-> sent[n]]) <= 1

\* C39: a newly spawned worker performs its first probe and emits its event
\* before it waits for any poll interval. Every worker starts in its check;
\* a worker in its check does nothing but complete it, which appends the
\* event of its job to the channel; and when that event is of a terminal
\* kind the worker has returned, without a wait, else it waits for the timer.
ImmediateFirstProbe ==
    [][\A w \in DOMAIN workers' :
          /\ w \notin DOMAIN workers => workers'[w].pc = "check"
          /\ (/\ w \in DOMAIN workers
              /\ workers[w].pc = "check"
              /\ workers'[w] # workers[w])
               => /\ Len(events') = Len(events) + 1
                  /\ events'[Len(events')].JobURL = workers[w].job
                  /\ workers'[w].pc =
                        IF events'[Len(events')].Kind \in TerminalKinds
                        THEN "done" ELSE "wait"]_vars

\* The only probe made so far was the first of the one worker, it answered
\* 404, and the worker has returned with its NotFound event in the channel.
ImmediateFirstProbeWitness ==
    /\ nIn = 1
    /\ Len(workers) = 1
    /\ workers[1].pc = "done"
    /\ 1 \notin closed
    /\ events = <<JobEvent(workers[1].job, EventNotFound, "", TRUE)>>

\* C40: a worker started with pollInterval <= 0 polls with the 30-second
\* default, one started with a positive pollInterval with exactly that
\* value; the interval in use is always positive (time.NewTicker never
\* panics), and a worker goes from its select to a check only when that
\* many seconds, at least one, have passed.
PollIntervalGuarded ==
    [][/\ ctl' # "panicked"
       /\ \A w \in DOMAIN workers' :
             /\ workers'[w].arg <= 0 => workers'[w].pollInterval = 30
             /\ workers'[w].arg > 0 => workers'[w].pollInterval = workers'[w].arg
             /\ workers'[w].pollInterval > 0
       /\ \A w \in DOMAIN workers :
             (workers[w].pc = "wait" /\ workers'[w].pc = "check")
               => /\ workers[w].elapsed >= 1
                  /\ workers[w].elapsed =
                        IF workers[w].arg <= 0 THEN 30 ELSE workers[w].arg]_vars

\* A worker started with an interval that is not positive has made its first
\* check, waited 30 seconds and is in its second check.
PollIntervalGuardedWitness ==
    /\ fake = "poll"
    /\ workers # <<>>
    /\ workers[1].arg <= 0
    /\ workers[1].pollInterval = 30
    /\ workers[1].pc = "check"
    /\ events # <<>>

====
